---------------------------- MODULE Spec2Model ----------------------------
(***************************************************************************)
(* A model of src/get_game.py: the fetch / normalise / extract / write     *)
(* pipeline that turns one game page into {games_root}/{game_id}.json.     *)
(*                                                                         *)
(* The page is immutable once fetched and every part of it is read at most *)
(* once, so the model draws each part of the page at the step where the    *)
(* code first reads it and records what was read (soup, table, tables,     *)
(* final_table): the set of runs is the same as with a page fixed at the   *)
(* fetch, without carrying the parts of a page the code never reaches.     *)
(*                                                                         *)
(* select_one results are modelled as options: <<>> is None, <<t>> is an   *)
(* element whose .text is t.  Reading .text of <<>> raises AttributeError. *)
(*                                                                         *)
(* Line 45 of the source is an `if row_i == 0:` header with no body; the   *)
(* statements of lines 46-52 sit at the indentation of the loop body.  The *)
(* model reads the header as having no effect, so lines 46-52 run for      *)
(* every row.                                                              *)
(***************************************************************************)
EXTENDS Integers, Sequences, FiniteSets, TLC

VARIABLES
    pc,               \* position of the run in __main__ / get_game_with_id
    err,              \* the exception that ended the run (NoErr while none)
    raw,              \* bytes returned by urlopen(url).read()   (line 11)
    html,             \* local html of get_game_with_id          (lines 11-13)
    soup,             \* the parsed page: which round divs it holds
    name,             \* pull_default_from_table: parameter name
    round_multiplier, \* pull_default_from_table: parameter round_multiplier
    table,            \* pull_default_from_table: parameter table, as read so far
    categories,       \* pull_default_from_table: local categories
    row_i,            \* pull_default_from_table: loop index of line 44
    i,                \* pull_default_from_table: loop index of line 47
    tables,           \* the round tables whose pull has returned, in order
    final_table,      \* the final-round table read by pull_final_from_table
    round_results,    \* single_round, double_round, final_round as assigned
    payload,          \* <<>> until get_game_with_id returns, then <<its value>>
    file              \* the file {games_root}/{game_id}.json

vars == <<pc, err, raw, html, soup, name, round_multiplier, table, categories,
          row_i, i, tables, final_table, round_results, payload, file>>

---------------------------------------------------------------------------
(* Bounds of the model *)

\* most td.category_name cells of one round table
MaxCats == 2
\* most tr rows of one round table after its header row
MaxRows == 2
\* most td.clue cells read from one page
MaxCells == 2
\* most chunks of a page fragment given to the normaliser
MaxChunks == 4

---------------------------------------------------------------------------
(* The normaliser: lines 12-13 *)

ENTITY_LT == <<"&", "l", "t", ";">>
ENTITY_GT == <<"&", "g", "t", ";">>
CHAR_LT == <<"<">>
CHAR_GT == <<">">>

\* The page fragments of the model are the byte strings made of at most
\* MaxChunks chunks: the single bytes the two entities are made of, another
\* byte, and the two entities themselves.
Chunks == {<<"&">>, <<"l">>, <<"g">>, <<"t">>, <<";">>, <<"x">>, ENTITY_LT, ENTITY_GT}

RECURSIVE Concat(_)
Concat(ss) == IF ss = <<>> THEN <<>> ELSE ss[1] \o Concat(Tail(ss))

Fragments == { Concat(cs) : cs \in UNION { [1..n -> Chunks] : n \in 0..MaxChunks } }

\* bytes.replace(old, new) with a non-empty old: non-overlapping occurrences,
\* found left to right, each replaced by new; the output is not rescanned.
RECURSIVE replace_keep_tail(_, _, _)
replace_keep_tail(s, old, new) ==
    IF Len(s) < Len(old) THEN s
    ELSE IF SubSeq(s, 1, Len(old)) = old
         THEN new \o replace_keep_tail(SubSeq(s, Len(old), Len(s)), old, new)
         ELSE <<s[1]>> \o replace_keep_tail(Tail(s), old, new)

RECURSIVE replace(_, _, _)
replace(s, old, new) ==
    IF Len(s) < Len(old) THEN s
    ELSE IF SubSeq(s, 1, Len(old)) = old
         THEN new \o replace(SubSeq(s, Len(old) + 1, Len(s)), old, new)
         ELSE <<s[1]>> \o replace(Tail(s), old, new)

---------------------------------------------------------------------------
(* The page *)

\* a div is absent, present without the table selected in it, or holds it
DivStates == {"absent", "empty", "table"}

\* soup.divs[k] is what the k-th select_one('div#...') found, once it has
\* run: k = 1 is div#jeopardy_round, 2 div#double_jeopardy_round, 3
\* div#final_jeopardy_round.  soup.others is the number of round containers
\* of the page besides these three (the code selects none of them).
NoSoup == [divs |-> <<>>, others |-> 0]

\* how many other round containers a page of the model may hold
OtherCounts == {0, 1}

\* the number of round containers of the page
NumContainers(s) ==
    Cardinality({k \in 1..Len(s.divs) : s.divs[k] # "absent"}) + s.others

\* a td.clue cell: its td.clue_text, its em.correct_response, and whether it
\* holds a td.clue_value_daily_double
RegularCell ==
    [clue_text |-> <<"clue">>, correct_response |-> <<"response">>,
     daily_double |-> FALSE]

\* the cells of the model: a regular cell, a daily double, a cell whose two
\* texts are empty, and the cells that lack one of the two sub-elements
Cells ==
    { RegularCell,
      [RegularCell EXCEPT !.daily_double = TRUE],
      [RegularCell EXCEPT !.clue_text = <<"">>, !.correct_response = <<"">>],
      [RegularCell EXCEPT !.clue_text = <<>>],
      [RegularCell EXCEPT !.correct_response = <<>>] }

\* the smallest clue value the first round table may render; the k-th round
\* table renders k times the values of the first, as the show's boards do
\* (the code reads no rendered value)
ClueValues == {100, 200}

CategoryNames == <<"A", "B", "C", "D", "E">>

RECURSIVE Sum(_)
Sum(s) == IF s = <<>> THEN 0 ELSE s[1] + Sum(Tail(s))

\* line 43: find_all("tr", recursive=False)[1:]
clue_rows(trs) == IF trs = <<>> THEN <<>> ELSE Tail(trs)

NoTable == [category_names |-> <<>>, min_value |-> 0, trs |-> <<>>, cells |-> <<>>]

\* A round table before any of its cells is read: its td.category_name
\* texts, its smallest rendered clue value, and for each tr the number of
\* td.clue cells it holds (trs[1] is the header row when there is one).
\* cells[r] are the cells read so far from the r-th row after the header.
TableShapes(budget, values) ==
    { [category_names |-> SubSeq(CategoryNames, 1, nc), min_value |-> v,
       trs |-> t, cells |-> [r \in 1..Len(clue_rows(t)) |-> <<>>]] :
         nc \in 0..MaxCats, v \in values,
         t \in {<<>>} \cup
               { <<0>> \o w :
                   w \in { x \in UNION { [1..m -> 0..(MaxCats + 1)] : m \in 0..MaxRows } :
                             Sum(x) <= budget } } }

\* the td.clue cells read so far from the tables of the page
CellsRead == Sum([k \in 1..Len(tables) |-> Sum([r \in 1..Len(tables[k].cells) |-> Len(tables[k].cells[r])])])
             + Sum([r \in 1..Len(table.cells) |-> Len(table.cells[r])])

\* a table.final_round: its td.category_name, td#clue_FJ, em.correct_response
RegularFinalTable ==
    [category_name |-> <<"X">>, clue_FJ |-> <<"Y">>, correct_response |-> <<"Z">>]

\* the final tables of the model: a regular one, and those lacking one element
FinalTables ==
    {RegularFinalTable}
    \cup { [RegularFinalTable EXCEPT ![f] = <<>>] :
             f \in {"category_name", "clue_FJ", "correct_response"} }

NoFinalTable == [category_name |-> <<>>, clue_FJ |-> <<>>, correct_response |-> <<>>]

---------------------------------------------------------------------------
(* Pure helpers of the extractor *)

get_default_max_wager_for_round_flat(round_name) ==
    IF round_name = "Final Jeopardy" THEN 3000 ELSE 1000

get_default_max_wager_for_round(round_name) ==
    IF round_name = "Jeopardy" THEN 1000
    ELSE IF round_name = "Double Jeopardy" THEN 2000
    ELSE IF round_name = "Final Jeopardy" THEN 3000
    ELSE 1000

\* Python's `x or y` on strings
text_or(text, placeholder) == IF text = "" THEN placeholder ELSE text

\* line 48
cost_from_zero(r, m) == 100 * r * m

cost(r, m) == 100 * (r + 1) * m

\* line 51
is_daily_double_never(td) == FALSE

is_daily_double(td) == td.daily_double

\* lines 48-52: the record appended for cell td of row r
ClueRecord(td, r, m) ==
    [clue |-> text_or(td.clue_text[1], "This clue was missing"),
     response |-> text_or(td.correct_response[1], "This response was missing"),
     cost |-> cost(r, m),
     is_daily_double |-> is_daily_double(td)]

\* line 53
DefaultRound(cats, n) ==
    [categories |-> cats, name |-> n, round_type |-> "DefaultRound",
     default_max_wager |-> get_default_max_wager_for_round(n)]

\* lines 56-59
FinalRound_swapped(t) ==
    [category |-> t.category_name[1], clue |-> t.correct_response[1],
     response |-> t.clue_FJ[1], round_type |-> "FinalRound",
     name |-> "Final Jeopardy",
     default_max_wager |-> get_default_max_wager_for_round("Final Jeopardy")]

FinalRound(t) ==
    [category |-> t.category_name[1], clue |-> t.clue_FJ[1],
     response |-> t.correct_response[1], round_type |-> "FinalRound",
     name |-> "Final Jeopardy",
     default_max_wager |-> get_default_max_wager_for_round("Final Jeopardy")]

\* line 26
rounds_without_final(results) == SubSeq(results, 1, Len(results) - 1)

rounds(results) == results

---------------------------------------------------------------------------
(* The file *)

\* the file as the run finds it: absent, or left by an earlier run
FileBefore == [state |-> "before", content |-> <<>>]

NoErr == [type |-> "", line |-> 0]

Init ==
    /\ pc = "start"
    /\ err = NoErr
    /\ raw = <<>>
    /\ html = <<>>
    /\ soup = NoSoup
    /\ name = ""
    /\ round_multiplier = 0
    /\ table = NoTable
    /\ categories = <<>>
    /\ row_i = 0
    /\ i = 0
    /\ tables = <<>>
    /\ final_table = NoFinalTable
    /\ round_results = <<>>
    /\ payload = <<>>
    /\ file = FileBefore

\* an uncaught exception of the given type at the given source line
Raise(type, line) ==
    /\ pc' = "failed"
    /\ err' = [type |-> type, line |-> line]

pull_locals == <<name, round_multiplier, table, categories, row_i, i>>

\* the page fragment of the pipeline run: an escaped emphasis tag
Pages == { <<"&", "l", "t", ";", "x", "&", "g", "t", ";">> }

\* lines 10-11: urlopen(url).read() returns the page or raises
Fetch ==
    /\ pc = "start"
    /\ \/ /\ \E page \in Pages : raw' = page /\ html' = page
          /\ pc' = "fetched"
          /\ UNCHANGED err
       \/ /\ Raise("URLError", 11)
          /\ UNCHANGED <<raw, html>>
    /\ UNCHANGED <<soup, pull_locals, tables, final_table, round_results, payload, file>>

\* line 12
ReplaceLt ==
    /\ pc = "fetched"
    /\ html' = replace(html, ENTITY_LT, CHAR_LT)
    /\ pc' = "lt_replaced"
    /\ UNCHANGED <<err, raw, soup, pull_locals, tables, final_table, round_results, payload, file>>

\* line 13
ReplaceGt ==
    /\ pc = "lt_replaced"
    /\ html' = replace(html, ENTITY_GT, CHAR_GT)
    /\ pc' = "normalized"
    /\ UNCHANGED <<err, raw, soup, pull_locals, tables, final_table, round_results, payload, file>>

\* line 14
Parse ==
    /\ pc = "normalized"
    /\ soup' = NoSoup
    /\ pc' = "parsed"
    /\ UNCHANGED <<err, raw, html, pull_locals, tables, final_table, round_results, payload, file>>

\* lines 15-18 and 20-21: select div k and its table.round, then call
\* pull_default_from_table(table, nm, mult), whose line 41 and 43 read the
\* category names and the rows.  An absent div raises at the select_one of
\* line `line`; a div without table.round passes None, and line 41 raises.
SelectRound(k, nm, mult, line) ==
    /\ UNCHANGED <<raw, html, tables, final_table, round_results, payload, file>>
    /\ \E div \in DivStates : soup' = [soup EXCEPT !.divs = Append(@, div)]
    /\ IF soup'.divs[k] = "absent"
       THEN Raise("AttributeError", line) /\ UNCHANGED pull_locals
       ELSE IF soup'.divs[k] = "empty"
       THEN /\ Raise("AttributeError", 41)
            /\ name' = nm
            /\ round_multiplier' = mult
            /\ UNCHANGED <<table, categories, row_i, i>>
       ELSE /\ \E t \in TableShapes(MaxCells - CellsRead,
                                   IF k = 1 THEN ClueValues
                                   ELSE {k * tables[1].min_value}) :
                 /\ table' = t
                 /\ categories' = [c \in 1..Len(t.category_names) |->
                                      [category |-> t.category_names[c], clues |-> <<>>]]
            /\ name' = nm
            /\ round_multiplier' = mult
            /\ row_i' = 0
            /\ i' = 0
            /\ pc' = "rows"
            /\ UNCHANGED err

SelectSingle ==
    /\ pc = "parsed"
    /\ SelectRound(1, "Jeopardy", 2, 15)

SelectDouble_skip ==
    /\ pc = "single_done"
    /\ \/ SelectRound(2, "Double Jeopardy", 4, 20) /\ soup'.divs[2] = "table"
       \/ /\ pc' = "double_done"
          /\ soup' = [soup EXCEPT !.divs = Append(@, "empty")]
          /\ UNCHANGED <<err, raw, html, pull_locals, tables, final_table,
                           round_results, payload, file>>

SelectDouble ==
    /\ pc = "single_done"
    /\ SelectRound(2, "Double Jeopardy", 4, 20)

\* lines 44-46: the next row of clue_rows; a row without td.clue cells runs
\* the loop of line 47 zero times
Row ==
    /\ pc = "rows"
    /\ row_i < Len(clue_rows(table.trs))
    /\ IF clue_rows(table.trs)[row_i + 1] = 0
       THEN row_i' = row_i + 1 /\ UNCHANGED pc
       ELSE pc' = "cells" /\ UNCHANGED row_i
    /\ i' = 0
    /\ UNCHANGED <<err, raw, html, soup, name, round_multiplier, table, categories,
                   tables, final_table, round_results, payload, file>>

\* lines 47-52 for cell i of the row: the cell is read, and the record is
\* appended to categories[i] unless a sub-element is None (lines 49, 50) or
\* there is no categories[i] (line 52)
Cell ==
    /\ pc = "cells"
    /\ \E td \in Cells :
         /\ table' = [table EXCEPT !.cells[row_i + 1] = Append(@, td)]
         /\ IF td.clue_text = <<>>
            THEN Raise("AttributeError", 49) /\ UNCHANGED <<categories, row_i, i>>
            ELSE IF td.correct_response = <<>>
            THEN Raise("AttributeError", 50) /\ UNCHANGED <<categories, row_i, i>>
            ELSE IF i >= Len(categories)
            THEN Raise("IndexError", 52) /\ UNCHANGED <<categories, row_i, i>>
            ELSE /\ categories' = [categories EXCEPT ![i + 1].clues =
                                      Append(@, ClueRecord(td, row_i, round_multiplier))]
                 /\ IF i + 1 < clue_rows(table.trs)[row_i + 1]
                    THEN i' = i + 1 /\ UNCHANGED <<pc, row_i>>
                    ELSE i' = 0 /\ row_i' = row_i + 1 /\ pc' = "rows"
                 /\ UNCHANGED err
    /\ UNCHANGED <<raw, html, soup, name, round_multiplier, tables, final_table,
                   round_results, payload, file>>

\* line 53, and the assignment of lines 18 / 21
PullReturn ==
    /\ pc = "rows"
    /\ row_i >= Len(clue_rows(table.trs))
    /\ round_results' = Append(round_results, DefaultRound(categories, name))
    /\ tables' = Append(tables, table)
    /\ pc' = IF name = "Jeopardy" THEN "single_done" ELSE "double_done"
    /\ name' = ""
    /\ round_multiplier' = 0
    /\ table' = NoTable
    /\ categories' = <<>>
    /\ row_i' = 0
    /\ i' = 0
    /\ UNCHANGED <<err, raw, html, soup, final_table, payload, file>>

\* lines 23-24 and 56-59
SelectFinal ==
    /\ pc = "double_done"
    /\ UNCHANGED <<raw, html, pull_locals, tables, payload, file>>
    /\ \E div \in DivStates : soup' = [soup EXCEPT !.divs = Append(@, div)]
    /\ IF soup'.divs[3] = "absent"
       THEN Raise("AttributeError", 23) /\ UNCHANGED <<final_table, round_results>>
       ELSE IF soup'.divs[3] = "empty"
       THEN Raise("AttributeError", 56) /\ UNCHANGED <<final_table, round_results>>
       ELSE \E t \in FinalTables :
              /\ final_table' = t
              /\ IF t.category_name = <<>>
                 THEN Raise("AttributeError", 56) /\ UNCHANGED round_results
                 ELSE IF t.clue_FJ = <<>>
                 THEN Raise("AttributeError", 57) /\ UNCHANGED round_results
                 ELSE IF t.correct_response = <<>>
                 THEN Raise("AttributeError", 58) /\ UNCHANGED round_results
                 ELSE /\ round_results' = Append(round_results, FinalRound(t))
                      /\ pc' = "final_done"
                      /\ UNCHANGED err

\* lines 26-28, and the assignment of line 65.  The part of the page no
\* select_one has touched (its other round containers) is drawn here.
Return ==
    /\ pc = "final_done"
    /\ payload' = << [rounds |-> rounds(round_results)] >>
    /\ pc' = "returned"
    /\ \E n \in OtherCounts : soup' = [soup EXCEPT !.others = n]
    /\ UNCHANGED <<err, raw, html, pull_locals, tables, final_table, round_results, file>>

\* lines 66-67: open(out_filename, 'w') creates or truncates the file, or
\* raises when games_root is no directory
OpenFile_before_extraction ==
    /\ pc \in {"parsed", "returned"}
    /\ file' = [state |-> "empty", content |-> <<>>]
    /\ pc' = IF pc = "returned" THEN "opened" ELSE pc
    /\ UNCHANGED <<err, raw, html, soup, pull_locals, tables, final_table, round_results, payload>>

OpenFile ==
    /\ pc = "returned"
    /\ \/ /\ file' = [state |-> "empty", content |-> <<>>]
          /\ pc' = "opened"
          /\ UNCHANGED err
       \/ /\ Raise("OSError", 67)
          /\ UNCHANGED file
    /\ UNCHANGED <<raw, html, soup, pull_locals, tables, final_table, round_results, payload>>

\* line 68
Dump ==
    /\ pc = "opened"
    /\ file' = [state |-> "written", content |-> payload]
    /\ pc' = "done"
    /\ UNCHANGED <<err, raw, html, soup, pull_locals, tables, final_table, round_results, payload>>

Next ==
    \/ Fetch
    \/ ReplaceLt
    \/ ReplaceGt
    \/ Parse
    \/ SelectSingle
    \/ SelectDouble
    \/ Row
    \/ Cell
    \/ PullReturn
    \/ SelectFinal
    \/ Return
    \/ OpenFile
    \/ Dump

Spec == Init /\ [][Next]_vars

\* The normaliser alone, on every page fragment of the model: the state
\* after line 11 has returned the fragment, then lines 12 and 13.
InitNormalizer ==
    /\ pc = "fetched"
    /\ err = NoErr
    /\ raw \in Fragments
    /\ html = raw
    /\ soup = NoSoup
    /\ name = ""
    /\ round_multiplier = 0
    /\ table = NoTable
    /\ categories = <<>>
    /\ row_i = 0
    /\ i = 0
    /\ tables = <<>>
    /\ final_table = NoFinalTable
    /\ round_results = <<>>
    /\ payload = <<>>
    /\ file = FileBefore

NextNormalizer ==
    \/ ReplaceLt
    \/ ReplaceGt

SpecNormalizer == InitNormalizer /\ [][NextNormalizer]_vars

---------------------------------------------------------------------------
(* Vocabulary of the properties *)

\* The default rounds there are: those whose pull has returned, and the one
\* being pulled.  cats are the category records, cells the cells read from
\* the rows after the header, mult the multiplier the round was pulled with.
MultiplierOf(nm) == IF nm = "Jeopardy" THEN 2 ELSE 4

ReturnedRounds ==
    { [cats |-> round_results[k].categories, cells |-> tables[k].cells,
       nm |-> round_results[k].name, mult |-> MultiplierOf(round_results[k].name)] :
         k \in 1..Len(tables) }

DefaultViews ==
    ReturnedRounds \cup
    (IF pc \in {"rows", "cells"}
     THEN {[cats |-> categories, cells |-> table.cells, nm |-> name,
            mult |-> round_multiplier]}
     ELSE {})

\* the rows (1-based, after the header) that hold a cell in column c, in order
SourceRows(cells, c) ==
    SelectSeq([r \in 1..Len(cells) |-> r], LAMBDA r : Len(cells[r]) >= c)

\* every clue record of view v stems from one cell, in row order
Aligned(v) ==
    \A c \in 1..Len(v.cats) : Len(v.cats[c].clues) = Len(SourceRows(v.cells, c))

---------------------------------------------------------------------------
(* C1 *)

\* C1: the output file is created or modified only after get_game_with_id
\* has returned a complete payload; a run that an exception ends before the
\* writer (any line before 62) leaves the file as it found it.
NoFileBeforePayload ==
    /\ file # FileBefore =>
          /\ payload # <<>>
          /\ Len(payload[1].rounds) = 3
          /\ pc \in {"opened", "done"}
    /\ (pc = "failed" /\ err.line < 62) => file = FileBefore

\* an out-of-range category index ends the run in the second round, after
\* the first round's record was built, and the file is untouched
FailedMidwayUnwritten ==
    /\ pc = "failed"
    /\ err = [type |-> "IndexError", line |-> 52]
    /\ Len(round_results) = 1
    /\ file = FileBefore

---------------------------------------------------------------------------
(* C2 *)

\* C2: for every clue cell read from a default round's table (in a column
\* that has a category), a missing td.clue_text or em.correct_response
\* yields a record with the placeholder in that field, and the run goes on.
MissingYieldsPlaceholder ==
    \A r \in 1..Len(table.cells) : \A c \in 1..Len(table.cells[r]) :
        LET td == table.cells[r][c]
            k == Len(SelectSeq([q \in 1..r |-> q], LAMBDA q : Len(table.cells[q]) >= c))
        IN  (c <= Len(categories) /\ (td.clue_text = <<>> \/ td.correct_response = <<>>)) =>
              /\ pc # "failed"
              /\ Len(categories[c].clues) >= k
              /\ td.clue_text = <<>> =>
                    categories[c].clues[k].clue = "This clue was missing"
              /\ td.correct_response = <<>> =>
                    categories[c].clues[k].response = "This response was missing"

---------------------------------------------------------------------------
(* C3 *)

\* C3 as claimed: the rounds sequence of a returned payload has as many
\* records as the page has round containers.
RoundsMatchContainers ==
    payload # <<>> => Len(payload[1].rounds) = NumContainers(soup)

\* C3, amended: a returned payload has exactly three records, named
\* Jeopardy, Double Jeopardy, Final Jeopardy in that order, one for each of
\* the three selected divs, each of which held its table, whatever other
\* round containers the page holds; so a page lacking one of the three
\* yields no rounds sequence.
RoundsAreTheThreeFixed ==
    payload # <<>> =>
        LET rs == payload[1].rounds
        IN  /\ Len(rs) = 3
            /\ [k \in 1..3 |-> rs[k].name] = <<"Jeopardy", "Double Jeopardy", "Final Jeopardy">>
            /\ [k \in 1..3 |-> rs[k].round_type] = <<"DefaultRound", "DefaultRound", "FinalRound">>
            /\ soup.divs = <<"table", "table", "table">>

\* a page with four round containers has yielded three records
FourContainersThreeRounds ==
    /\ payload # <<>>
    /\ NumContainers(soup) = 4
    /\ Len(payload[1].rounds) = 3

---------------------------------------------------------------------------
(* C4 *)

\* C4: in every default round, the k-th clue record of a category has cost
\* 100 * (rowIndex + 1) * multiplier, rowIndex being the 0-based position,
\* among the rows after the header row, of the row its cell is in, and
\* multiplier the round's multiplier.
CostFollowsRow ==
    \A v \in DefaultViews :
        /\ Aligned(v)
        /\ \A c \in 1..Len(v.cats) : \A k \in 1..Len(v.cats[c].clues) :
              v.cats[c].clues[k].cost = 100 * SourceRows(v.cells, c)[k] * v.mult

\* both rounds returned; a clue of the second row of the Double Jeopardy
\* table costs 800, one of the first row of the Jeopardy table 200
SecondRowCosted ==
    /\ Len(tables) = 2
    /\ \E c \in 1..Len(round_results[1].categories) :
          \E k \in 1..Len(round_results[1].categories[c].clues) :
             round_results[1].categories[c].clues[k].cost = 200
    /\ \E c \in 1..Len(round_results[2].categories) :
          \E k \in 1..Len(round_results[2].categories[c].clues) :
             /\ round_results[2].categories[c].clues[k].cost = 800
             /\ SourceRows(tables[2].cells, c)[k] = 2

---------------------------------------------------------------------------
(* C5 *)

\* C5 as claimed: a default round's multiplier is v / 100 and its
\* default_max_wager is v * 100, v being the smallest clue value its table
\* renders (stated for the tables that hold a clue cell).
WagerFromSmallestValue ==
    \A k \in 1..Len(tables) :
        LET v == tables[k].min_value
            r == round_results[k]
        IN  (\E q \in 1..Len(tables[k].cells) : tables[k].cells[q] # <<>>) =>
            /\ r.default_max_wager = v * 100
            /\ \A c \in 1..Len(r.categories) : \A j \in 1..Len(r.categories[c].clues) :
                  r.categories[c].clues[j].cost =
                      100 * SourceRows(tables[k].cells, c)[j] * (v \div 100)

\* C5, amended: a default round's multiplier and default_max_wager depend
\* on its name alone: 2 and 1000 for Jeopardy, 4 and 2000 for Double
\* Jeopardy, whatever clue values its table renders.
WagerFromName ==
    \A k \in 1..Len(tables) :
        LET r == round_results[k]
            m == IF r.name = "Jeopardy" THEN 2 ELSE 4
        IN  /\ r.name \in {"Jeopardy", "Double Jeopardy"}
            /\ r.default_max_wager = IF r.name = "Jeopardy" THEN 1000 ELSE 2000
            /\ \A c \in 1..Len(r.categories) : \A j \in 1..Len(r.categories[c].clues) :
                  r.categories[c].clues[j].cost \in { 100 * q * m : q \in 1..MaxRows }

\* a Double Jeopardy round whose table renders 200 as its smallest value has
\* returned with a clue of cost 400 and default_max_wager 2000
DoubleRoundWager ==
    /\ Len(tables) = 2
    /\ tables[2].min_value = 200
    /\ round_results[2].default_max_wager = 2000
    /\ \E c \in 1..Len(round_results[2].categories) :
          \E j \in 1..Len(round_results[2].categories[c].clues) :
             round_results[2].categories[c].clues[j].cost = 400

---------------------------------------------------------------------------
(* C6 *)

\* C6: in every default round that extraction produced, all category
\* records have clues sequences of the same length, whatever the table.
EqualClueCounts ==
    \A k \in 1..Len(tables) :
        \A c1 \in 1..Len(round_results[k].categories),
           c2 \in 1..Len(round_results[k].categories) :
            Len(round_results[k].categories[c1].clues)
                = Len(round_results[k].categories[c2].clues)

---------------------------------------------------------------------------
(* C7 *)

\* C7 as claimed: a selected div without its table does not end the run.
MissingTableSkipped ==
    \A k \in 1..Len(soup.divs) : soup.divs[k] = "empty" => pc # "failed"

\* C7, amended: a selected div without its table ends the run with an
\* AttributeError: no payload is returned and the file is left as it was,
\* the records of the earlier containers included.
MissingTableAborts ==
    \A k \in 1..Len(soup.divs) :
        soup.divs[k] = "empty" =>
            /\ pc = "failed"
            /\ err.type = "AttributeError"
            /\ Len(round_results) = k - 1
            /\ payload = <<>>
            /\ file = FileBefore

\* the Double Jeopardy div has no table.round: the run has failed with the
\* Jeopardy record built and nothing written
DoubleTableMissing ==
    /\ Len(soup.divs) = 2
    /\ soup.divs[2] = "empty"
    /\ Len(round_results) = 1
    /\ pc = "failed"

---------------------------------------------------------------------------
(* C8 *)

\* C8: from a final-round table with category X, clue Y and response Z the
\* run builds exactly one FinalRound record, with category X, clue Y,
\* response Z, default_max_wager 3000, and no categories or clues field.
FinalRoundRecord ==
    final_table = RegularFinalTable =>
        /\ Len(round_results) = 3
        /\ Cardinality({k \in 1..3 : round_results[k].round_type = "FinalRound"}) = 1
        /\ LET r == round_results[3]
           IN  /\ r.category = "X"
               /\ r.clue = "Y"
               /\ r.response = "Z"
               /\ r.round_type = "FinalRound"
               /\ r.default_max_wager = 3000
               /\ DOMAIN r \cap {"categories", "clues"} = {}
        /\ payload # <<>> => payload[1].rounds[3] = round_results[3]

\* the payload with the final round has been written
FinalRoundWritten ==
    /\ pc = "done"
    /\ final_table = RegularFinalTable
    /\ file.content[1].rounds[3].category = "X"

---------------------------------------------------------------------------
(* C9 *)

\* C9: every clue record's is_daily_double tells whether the cell it was
\* built from holds a td.clue_value_daily_double.
DailyDoubleIffMarker ==
    \A v \in DefaultViews :
        /\ Aligned(v)
        /\ \A c \in 1..Len(v.cats) : \A k \in 1..Len(v.cats[c].clues) :
              v.cats[c].clues[k].is_daily_double
                  = v.cells[SourceRows(v.cells, c)[k]][c].daily_double

\* a returned round holds a daily double and a clue that is none
DailyDoubleAndPlain ==
    \E v \in ReturnedRounds :
        \E c1 \in 1..Len(v.cats), c2 \in 1..Len(v.cats) :
            \E k1 \in 1..Len(v.cats[c1].clues), k2 \in 1..Len(v.cats[c2].clues) :
                /\ v.cats[c1].clues[k1].is_daily_double
                /\ ~v.cats[c2].clues[k2].is_daily_double

---------------------------------------------------------------------------
(* C10 *)

\* both entities unescaped in one left-to-right pass; every other byte kept
RECURSIVE Unescape(_)
Unescape(s) ==
    IF s = <<>> THEN <<>>
    ELSE IF Len(s) >= 4 /\ SubSeq(s, 1, 4) = ENTITY_LT
         THEN CHAR_LT \o Unescape(SubSeq(s, 5, Len(s)))
    ELSE IF Len(s) >= 4 /\ SubSeq(s, 1, 4) = ENTITY_GT
         THEN CHAR_GT \o Unescape(SubSeq(s, 5, Len(s)))
    ELSE <<s[1]>> \o Unescape(Tail(s))

\* C10: what lines 12-13 leave in html is what the two replacements give in
\* the opposite order, and is the input with each entity unescaped and no
\* other byte changed.
NormalizeOrderIndependent ==
    pc = "normalized" =>
        /\ html = replace(replace(raw, ENTITY_GT, CHAR_GT), ENTITY_LT, CHAR_LT)
        /\ html = Unescape(raw)

\* a fragment holding both entities, and bytes of them besides, normalised
BothEntitiesNormalized ==
    /\ pc = "normalized"
    /\ Len(raw) > 8
    /\ \E a \in 1..Len(html), b \in 1..Len(html) : html[a] = "<" /\ html[b] = ">"

=============================================================================
